---- MODULE Spec2Model ----
(***************************************************************************)
(* Model of backend/parser_utils.py: the section-aware line segmentation   *)
(* engine split_and_merge and the predicates it is built from.            *)
(*                                                                         *)
(* Representation of text.  A string is a sequence of words; the string   *)
(* it stands for is the words joined by single spaces (the lines reaching  *)
(* split_and_merge are whitespace-normalised by clean_line, app.py:38, and *)
(* every string the function builds is joined with ' ' and stripped).  The *)
(* empty string is <<>>.  A word of an item is a record [w, ln, k]: w is   *)
(* the word itself, ln and k are the input line and the position in that   *)
(* line the word was read from.  ln and k are history: no predicate of the *)
(* program reads them, they only let the properties say where text of the  *)
(* output came from.                                                       *)
(*                                                                         *)
(* The regular expressions of the source look at characters.  Their answer *)
(* for each word of the finite vocabulary below is tabulated (the sets     *)
(* named after the regular expression they come from); everything above    *)
(* the level of one word is computed the way the code computes it.         *)
(***************************************************************************)
EXTENDS Integers, Sequences, FiniteSets

\* U+2013 EN DASH, one of the bullet glyphs of BULLET_RE; one character long.
EnDash == "EN_DASH"

\* The words input lines are made of, and the two pieces a word can be cut
\* into by Post-pass 3 ("AnalyticsSuite" -> "Analytics" + "Suite").
Vocabulary ==
    { "Projects", "Experience", "Education", "Alpha",
      "-", EnDash, "1.",
      "a", "for", "of", "the",
      "xx", "made", "model", "dashboard", "metrics", "backend", "rewrite.",
      "Built", "Suspicious", "Activity", "Detection", "Software", "Engineer",
      "Acme", "Corp,", "NY", "Jan", "Mar", "Led", "AnalyticsSuite",
      "Real-Time", "Monitor", "AB", "Cd", "Ef", "Ef.", "X.", "2020", "2022",
      "Analytics", "Suite", "Real-", "Time" }

\* len(w): the number of characters of a word.
CharLen(w) == IF w = EnDash THEN 1 ELSE Len(w)

\* BULLET_RE = ^[•\-–—\*]\s+ : the first word is one glyph.
BulletGlyphs == { "-", EnDash, "*" }

\* NUM_BULLET_RE = ^\(?\d+[\.\)\]]\s+ : the first word is a list number.
NumMarkers == { "1." }

\* Words on which EXPERIENCE_HEADERS, PROJECTS_HEADERS, OTHER_HEADERS match
\* when they start the line (keyword, then a word boundary; case ignored).
ExperienceWords == { "Experience" }
ProjectsWords == { "Projects" }
OtherWords == { "Education" }

\* SMALL_WORDS, as in the source.
SMALL_WORDS == { "and", "for", "of", "to", "in", "with", "on", "the", "a", "an", "&" }

\* wl = w.lower().strip(".,:;()[]")
LowerStripped(w) ==
    CASE w = "Projects" -> "projects"     [] w = "Experience" -> "experience"
      [] w = "Education" -> "education"   [] w = "Alpha" -> "alpha"
      [] w = "Built" -> "built"           [] w = "Suspicious" -> "suspicious"
      [] w = "Activity" -> "activity"     [] w = "Detection" -> "detection"
      [] w = "Software" -> "software"     [] w = "Engineer" -> "engineer"
      [] w = "Acme" -> "acme"             [] w = "Corp," -> "corp"
      [] w = "NY" -> "ny"                 [] w = "Jan" -> "jan"
      [] w = "Mar" -> "mar"               [] w = "Led" -> "led"
      [] w = "AnalyticsSuite" -> "analyticssuite"
      [] w = "Real-Time" -> "real-time"   [] w = "Monitor" -> "monitor"
      [] w = "AB" -> "ab"                 [] w = "Cd" -> "cd"
      [] w = "Ef" -> "ef"                 [] w = "Ef." -> "ef"
      [] w = "X." -> "x"                  [] w = "1." -> "1"
      [] w = "rewrite." -> "rewrite"      [] w = "Analytics" -> "analytics"
      [] w = "Suite" -> "suite"           [] w = "Real-" -> "real-"
      [] w = "Time" -> "time"
      [] OTHER -> w

\* Words for which  w.isupper() or (w[:1].isupper() and w[1:].islower())
\* or re.match(r'[A-Z][\w&\-/]+$', w)  is true.
TitleishWords ==
    { "Projects", "Experience", "Education", "Alpha", "Built", "Suspicious",
      "Activity", "Detection", "Software", "Engineer", "Acme", "Corp,", "NY",
      "Jan", "Mar", "Led", "AnalyticsSuite", "Real-Time", "Monitor", "AB",
      "Cd", "Ef", "Ef.", "X.", "Analytics", "Suite", "Real-", "Time" }

\* Words ending in one of  . ! ? : ; ,
EndsWithPunctuation == { "1.", "rewrite.", "Corp,", "Ef.", "X." }

\* MONTH_RE, (19|20)\d{2}, ROLE_RE
MonthWords == { "Jan", "Mar" }
YearWords == { "2020", "2022" }
RoleWords == { "Engineer" }

\* LOCATION_RE = ,\s*[A-Z]{2}(?:\b|,|\s) : a word ending in a comma, then a
\* word that is two capitals.
EndsWithComma == { "Corp," }
TwoCapitals == { "NY", "AB" }

\* ALLCAPS_RE = ^[A-Z][A-Z &\-\.,/()]+$ : words made of these characters
\* only, and words starting with a capital.
AllCapsChars == { "-", "NY", "AB", "X." }
StartsUpper == TitleishWords

\* FRAG_RE's one-word pattern (?:[A-Z]{2,}|[A-Z][a-z]+)$ searched in a word:
\* FragTail is the leftmost suffix of the word that matches ("" when none
\* does), FragHead what is left of the word before it.
FragTail(w) ==
    CASE w = "AnalyticsSuite" -> "Suite"
      [] w = "Real-Time" -> "Time"
      [] w \in { "Projects", "Experience", "Education", "Alpha", "Built",
                 "Suspicious", "Activity", "Detection", "Software", "Engineer",
                 "Acme", "NY", "Jan", "Mar", "Led", "Monitor", "AB", "Cd", "Ef",
                 "Analytics", "Suite", "Time" } -> w
      [] OTHER -> ""

FragHead(w) ==
    CASE w = "AnalyticsSuite" -> "Analytics"
      [] w = "Real-Time" -> "Real-"
      [] FragTail(w) = w -> ""
      [] OTHER -> w

\* Words ending in an en dash or an em dash (trimmed.endswith(('–', '—'))).
EndsWithDash == { EnDash }

\* trimmed[:-1] applied to the last word of trimmed: the word without its last
\* character.
WithoutLastChar(w) == IF w \in { "-", EnDash } THEN "" ELSE w

----------------------------------------------------------------------------
\* Program constants of parser_utils.py.
MinTitleLen == 2
MaxTitleLen == 120
MaxTitleWords == 10
RatioNum == 3
RatioDen == 5
TitleWindow == 10
ShortTitleWords == 4
MergedTitleWords == 8

----------------------------------------------------------------------------
\* The words of an item, without their history.
Text(s) == [j \in 1..Len(s) |-> s[j].w]

\* An input line as an item: word k of line ln.
Item(line, ln) == [k \in 1..Len(line) |-> [w |-> line[k], ln |-> ln, k |-> k]]

RECURSIVE CharCount(_)
\* len(t) for the string t of an item.
CharCount(s) ==
    IF s = <<>> THEN 0
    ELSE IF Len(s) = 1 THEN CharLen(s[1].w)
    ELSE CharLen(s[1].w) + 1 + CharCount(Tail(s))

is_bullet(s) ==
    /\ Len(s) >= 2
    /\ s[1].w \in BulletGlyphs \cup NumMarkers

EXPERIENCE_HEADERS(s) == s # <<>> /\ s[1].w \in ExperienceWords
PROJECTS_HEADERS(s) == s # <<>> /\ s[1].w \in ProjectsWords
OTHER_HEADERS(s) == s # <<>> /\ s[1].w \in OtherWords

IsHeader(s) == EXPERIENCE_HEADERS(s) \/ PROJECTS_HEADERS(s) \/ OTHER_HEADERS(s)

DATE_RE(s) ==
    \E a, b \in 1..Len(s) : a < b /\ s[a].w \in MonthWords /\ s[b].w \in YearWords

RANGE_RE(s) == \E a \in 2..(Len(s) - 1) : s[a].w = "-"

ROLE_RE(s) == \E a \in 1..Len(s) : s[a].w \in RoleWords

LOCATION_RE(s) ==
    \E a \in 1..(Len(s) - 1) : s[a].w \in EndsWithComma /\ s[a + 1].w \in TwoCapitals

ALLCAPS_RE(s) ==
    /\ s # <<>>
    /\ s[1].w \in StartsUpper
    /\ \A a \in 1..Len(s) : s[a].w \in AllCapsChars
    /\ CharCount(s) >= 2

looks_like_job_header(s) ==
    DATE_RE(s) \/ RANGE_RE(s) \/ ROLE_RE(s) \/ LOCATION_RE(s) \/ ALLCAPS_RE(s)

looks_like_project_title(s) ==
    LET sigs == { j \in 1..Len(s) : LowerStripped(s[j].w) \notin SMALL_WORDS }
        sig == Cardinality(sigs)
        titleish == Cardinality({ j \in sigs : s[j].w \in TitleishWords })
    IN  /\ CharCount(s) >= MinTitleLen
        /\ CharCount(s) <= MaxTitleLen
        /\ s[Len(s)].w \notin EndsWithPunctuation
        /\ Len(s) >= 1
        /\ Len(s) <= MaxTitleWords
        /\ sig > 0
        /\ RatioDen * titleish >= RatioNum * sig

word_count(s) == Len(s)

\* The body of the loop of _split_trailing_title_if_any at one `start`:
\* candidate = tokens[start:], prefix = tokens[:start].
SplitAt(s, start) ==
    [prefix |-> SubSeq(s, 1, start), title |-> SubSeq(s, start + 1, Len(s))]

RECURSIVE ScanUp(_, _)
\* for start in range(..., len(tokens) - 1), from `start` on: the first split
\* whose prefix is not empty and whose candidate looks like a project title;
\* (text, None) when the range is exhausted.  None is written <<>>.
ScanUp(s, start) ==
    IF start > Len(s) - 2
    THEN [prefix |-> s, title |-> <<>>]
    ELSE IF /\ SplitAt(s, start).prefix # <<>>
            /\ looks_like_project_title(SplitAt(s, start).title)
         THEN SplitAt(s, start)
         ELSE ScanUp(s, start + 1)

RECURSIVE ScanDown(_, _, _)
\* The same loop run from the last split point down to `lo`.
ScanDown(s, start, lo) ==
    IF start < lo
    THEN [prefix |-> s, title |-> <<>>]
    ELSE IF /\ SplitAt(s, start).prefix # <<>>
            /\ looks_like_project_title(SplitAt(s, start).title)
         THEN SplitAt(s, start)
         ELSE ScanDown(s, start - 1, lo)

\* max(0, len(tokens) - 10)
FirstStart(s) == IF Len(s) > TitleWindow THEN Len(s) - TitleWindow ELSE 0

\* The splitter scanning from the right: it returns the longest prefix.
split_from_the_right(s) == ScanDown(s, Len(s) - 2, FirstStart(s))

split_trailing_title_if_any(s) == ScanUp(s, FirstStart(s))

\* FRAG_RE = (?:[A-Z]{2,}|[A-Z][a-z]+)(?:\s+(?:[A-Z]{2,}|[A-Z][a-z]+))?$
\* searched in the item (the leftmost match): the capitalised end of the word
\* before the last one together with a wholly capitalised last word, else the
\* capitalised end of the last word.  The number of words the match touches:
\* 0 (no match), 1 or 2.
FragWords(s) ==
    LET n == Len(s)
    IN  IF n = 0 \/ FragTail(s[n].w) = "" THEN 0
        ELSE IF n >= 2 /\ FragTail(s[n].w) = s[n].w /\ FragTail(s[n - 1].w) # ""
             THEN 2
             ELSE 1

\* frag = m.group(0)
Frag(s) ==
    LET n == Len(s)
        first == n - FragWords(s) + 1
    IN  IF FragWords(s) = 0 THEN <<>>
        ELSE <<[s[first] EXCEPT !.w = FragTail(s[first].w)]>>
             \o SubSeq(s, first + 1, n)

\* item[: item.rfind(frag)].rstrip()
CutFrag(s) ==
    LET n == Len(s)
        first == n - FragWords(s) + 1
        head == FragHead(s[first].w)
    IN  SubSeq(s, 1, first - 1)
        \o (IF head = "" THEN <<>> ELSE <<[s[first] EXCEPT !.w = head]>>)

\* if trimmed.endswith((' -', '–', '—')): trimmed = trimmed[:-1].rstrip()
CleanDash(trimmed) ==
    LET n == Len(trimmed)
    IN  IF n >= 1 /\ ( (n >= 2 /\ trimmed[n].w = "-") \/ trimmed[n].w \in EndsWithDash )
        THEN LET rest == WithoutLastChar(trimmed[n].w)
             IN  SubSeq(trimmed, 1, n - 1)
                 \o (IF rest = "" THEN <<>> ELSE <<[trimmed[n] EXCEPT !.w = rest]>>)
        ELSE trimmed

----------------------------------------------------------------------------
\* Input.  The lines of the bounded inputs are drawn from Pool; MaxLines bounds
\* their number.  NamedInputs are further, longer inputs.
MaxLines == 3

Pool ==
    { <<>>,
      <<"Projects">>, <<"Experience">>, <<"Education">>,
      <<"-", "xx", "AB">>, <<EnDash, "AB">>,
      <<"Cd", "Ef">>, <<"xx", "Cd", "Ef">>, <<"made", "xx">>,
      <<"Software", "Engineer">> }

ScenarioA ==
    << <<"Projects">>, <<"Suspicious">>, <<"Activity", "Detection">>,
       <<"-", "Built", "a", "model", "for", "X.">> >>

ScenarioB ==
    << <<"Experience">>,
       <<"Software", "Engineer", "-", "Acme", "Corp,", "NY", "-", "Jan", "2020",
         "-", "Mar", "2022">>,
       <<"-", "Led", "backend", "rewrite.">> >>

ScenarioC ==
    << <<"Projects">>,
       <<"-", "Built", "dashboard", "for", "metrics", "AnalyticsSuite">>,
       <<"Real-Time", "Monitor">> >>

\* Three one-word titles in a row.
ThreeTitles == << <<"Projects">>, <<"AB">>, <<"Cd">>, <<"Ef">> >>

\* A bullet ending in a capitalised word, a second Projects header, a title.
BulletThenTitle ==
    << <<"Projects">>, <<"-", "made", "AnalyticsSuite">>, <<"Projects">>,
       <<"Real-Time", "Monitor">> >>

DashBulletThenTitle ==
    << <<"Projects">>, <<EnDash, "AB">>, <<"Projects">>, <<"Cd", "Ef">> >>

\* A header of two words, and a line ending in the same two words.
HeaderTwice ==
    << <<"Projects", "Alpha">>, <<"made", "Projects", "Alpha">> >>

\* A bullet whose trailing title starts with a header word.
HeaderLikeTitle ==
    << <<"Projects">>, <<"-", "xx", "Experience", "of", "the">>, <<"Cd", "Ef">>,
       <<"-", "made", "xx">> >>

\* A title, a bullet, and a wrapped continuation of 11 words after it.
LongWrappedBullet ==
    << <<"Projects">>, <<"Alpha">>, <<"-", "AB">>,
       <<"Cd", "Built", "Led", "Acme", "Jan", "Mar", "NY", "Monitor", "Time",
         "Ef.">>,
       <<"Suite">> >>

NamedInputs ==
    { ScenarioA, ScenarioB, ScenarioC, ThreeTitles, BulletThenTitle,
      DashBulletThenTitle, HeaderTwice, HeaderLikeTitle, LongWrappedBullet }

BoundedInputs == UNION { [1..n -> Pool] : n \in 0..MaxLines }

Inputs == BoundedInputs \cup NamedInputs

----------------------------------------------------------------------------
VARIABLES
    lines,          \* the argument of split_and_merge
    pc,             \* the loop being run: "merge", "split", "pass1", "pass2",
                    \* "pass3"; "done" after return; "IndexError" when raised
    i,              \* the index of the running loop (1-based)
    section,        \* "exp", "proj" or "none"
    merged,
    current,        \* the list the section splitter appends to
    exp,
    proj,
    fixed,
    merged_titles,
    final_proj,
    scanned,        \* history: for each line read, how the merge pass took it
    was_merged,     \* history: which items of merged_titles Post-pass 2 merged
    last_split      \* history: the last call of _split_trailing_title_if_any

vars ==
    << lines, pc, i, section, merged, current, exp, proj, fixed, merged_titles,
       final_proj, scanned, was_merged, last_split >>

Last(seq) == seq[Len(seq)]

\* merged[-1] = v
SetLast(seq, v) == [seq EXCEPT ![Len(seq)] = v]

\* main, and maybe_title when there is one.
Pieces(r) == IF r.title # <<>> THEN <<r.prefix, r.title>> ELSE <<r.prefix>>

Call(s) == [text |-> s, result |-> split_trailing_title_if_any(s)]

Init ==
    /\ lines \in Inputs
    /\ pc = "merge"
    /\ i = 1
    /\ section = "none"
    /\ merged = <<>>
    /\ current = "none"
    /\ exp = <<>>
    /\ proj = <<>>
    /\ fixed = <<>>
    /\ merged_titles = <<>>
    /\ final_proj = <<>>
    /\ scanned = <<>>
    /\ was_merged = <<>>
    /\ last_split = Call(<<>>)

----------------------------------------------------------------------------
\* The merge pass:  for raw in lines  (parser_utils.py:82-139).
Scanning == pc = "merge" /\ i <= Len(lines)

\* text = raw.strip()
text == Item(lines[i], i)

\* A line that is neither blank, nor a header, nor a bullet.
Plain == Scanning /\ text # <<>> /\ ~IsHeader(text) /\ ~is_bullet(text)

Scanned(kind) ==
    /\ i' = i + 1
    /\ scanned' = Append(scanned, [section |-> section, kind |-> kind])

\* if not raw: continue / if not text: continue
SkipBlank ==
    /\ Scanning
    /\ text = <<>>
    /\ Scanned("blank")
    /\ UNCHANGED << lines, pc, section, merged, current, exp, proj, fixed,
                    merged_titles, final_proj, was_merged, last_split >>

\* A section switch that does not keep the header line as a marker.
SectionSwitchWithoutMarker ==
    /\ Scanning
    /\ text # <<>>
    /\ IsHeader(text)
    /\ section' = IF EXPERIENCE_HEADERS(text) THEN "exp"
                  ELSE IF PROJECTS_HEADERS(text) THEN "proj"
                  ELSE "none"
    /\ Scanned("header")
    /\ UNCHANGED << lines, pc, merged, current, exp, proj, fixed, merged_titles,
                    final_proj, was_merged, last_split >>

\* Section switches (keep markers so we can split later)
SectionSwitch ==
    /\ Scanning
    /\ text # <<>>
    /\ IsHeader(text)
    /\ section' = IF EXPERIENCE_HEADERS(text) THEN "exp"
                  ELSE IF PROJECTS_HEADERS(text) THEN "proj"
                  ELSE "none"
    /\ merged' = Append(merged, text)
    /\ Scanned("header")
    /\ UNCHANGED << lines, pc, current, exp, proj, fixed, merged_titles,
                    final_proj, was_merged, last_split >>

\* Bullets always start new items; under Projects a trailing title is split off.
BulletInProjects ==
    /\ Scanning
    /\ text # <<>>
    /\ ~IsHeader(text)
    /\ is_bullet(text)
    /\ section = "proj"
    /\ last_split' = Call(text)
    /\ merged' = merged \o Pieces(last_split'.result)
    /\ Scanned("bullet")
    /\ UNCHANGED << lines, pc, section, current, exp, proj, fixed, merged_titles,
                    final_proj, was_merged >>

\* A bullet appended without its marker.
BulletElsewhereStripped ==
    /\ Scanning
    /\ text # <<>>
    /\ ~IsHeader(text)
    /\ is_bullet(text)
    /\ section # "proj"
    /\ merged' = Append(merged, Tail(text))
    /\ Scanned("bullet")
    /\ UNCHANGED << lines, pc, section, current, exp, proj, fixed, merged_titles,
                    final_proj, was_merged, last_split >>

BulletElsewhere ==
    /\ Scanning
    /\ text # <<>>
    /\ ~IsHeader(text)
    /\ is_bullet(text)
    /\ section # "proj"
    /\ merged' = Append(merged, text)
    /\ Scanned("bullet")
    /\ UNCHANGED << lines, pc, section, current, exp, proj, fixed, merged_titles,
                    final_proj, was_merged, last_split >>

\* first line after header = title
ProjectsFirstLine ==
    /\ Plain
    /\ section = "proj"
    /\ (merged = <<>> \/ PROJECTS_HEADERS(Last(merged)))
    /\ merged' = Append(merged, text)
    /\ Scanned("plain")
    /\ UNCHANGED << lines, pc, section, current, exp, proj, fixed, merged_titles,
                    final_proj, was_merged, last_split >>

\* A line after a bullet taken as a title of its own when it looks like one.
WrappedBulletAsTitle ==
    /\ Plain
    /\ section = "proj"
    /\ merged # <<>>
    /\ ~PROJECTS_HEADERS(Last(merged))
    /\ is_bullet(Last(merged))
    /\ last_split' = Call(text)
    /\ LET r == last_split'.result
       IN  merged' = IF looks_like_project_title(text)
                     THEN Append(merged, text)
                     ELSE IF r.title # <<>>
                     THEN Append(SetLast(merged, Last(merged) \o r.prefix), r.title)
                     ELSE SetLast(merged, Last(merged) \o text)
    /\ Scanned("plain")
    /\ UNCHANGED << lines, pc, section, current, exp, proj, fixed, merged_titles,
                    final_proj, was_merged >>

\* wrapped bullet, but also check if it ends with a title
WrappedBullet ==
    /\ Plain
    /\ section = "proj"
    /\ merged # <<>>
    /\ ~PROJECTS_HEADERS(Last(merged))
    /\ is_bullet(Last(merged))
    /\ last_split' = Call(text)
    /\ LET r == last_split'.result
       IN  merged' = IF r.title # <<>>
                     THEN Append(SetLast(merged, Last(merged) \o r.prefix), r.title)
                     ELSE SetLast(merged, Last(merged) \o text)
    /\ Scanned("plain")
    /\ UNCHANGED << lines, pc, section, current, exp, proj, fixed, merged_titles,
                    final_proj, was_merged >>

\* title vs continuation
TitleOrContinuation ==
    /\ Plain
    /\ section = "proj"
    /\ merged # <<>>
    /\ ~PROJECTS_HEADERS(Last(merged))
    /\ ~is_bullet(Last(merged))
    /\ merged' = IF looks_like_project_title(text)
                 THEN Append(merged, text)
                 ELSE SetLast(merged, Last(merged) \o text)
    /\ Scanned("plain")
    /\ UNCHANGED << lines, pc, section, current, exp, proj, fixed, merged_titles,
                    final_proj, was_merged, last_split >>

\* Under Experience: a job header starts an item, anything else is joined to
\* merged[-1]; the assignment to merged[-1] raises IndexError on an empty list.
ExperienceLine ==
    /\ Plain
    /\ section = "exp"
    /\ IF looks_like_job_header(text)
       THEN merged' = Append(merged, text) /\ pc' = pc
       ELSE IF merged # <<>>
            THEN merged' = SetLast(merged, Last(merged) \o text) /\ pc' = pc
            ELSE merged' = merged /\ pc' = "IndexError"
    /\ Scanned("plain")
    /\ UNCHANGED << lines, section, current, exp, proj, fixed, merged_titles,
                    final_proj, was_merged, last_split >>

\* merged.append(text), outside the two sections
NoSectionLine ==
    /\ Plain
    /\ section = "none"
    /\ merged' = Append(merged, text)
    /\ Scanned("plain")
    /\ UNCHANGED << lines, pc, section, current, exp, proj, fixed, merged_titles,
                    final_proj, was_merged, last_split >>

MergeDone ==
    /\ pc = "merge"
    /\ i > Len(lines)
    /\ pc' = "split"
    /\ i' = 1
    /\ UNCHANGED << lines, section, merged, current, exp, proj, fixed,
                    merged_titles, final_proj, scanned, was_merged, last_split >>

----------------------------------------------------------------------------
\* Split into sections:  for line in merged  (parser_utils.py:141-152).
\* A splitter that switches the list and then files the header line in it.
SplitMarkerKept ==
    /\ pc = "split"
    /\ i <= Len(merged)
    /\ IsHeader(merged[i])
    /\ current' = IF EXPERIENCE_HEADERS(merged[i]) THEN "exp"
                  ELSE IF PROJECTS_HEADERS(merged[i]) THEN "proj"
                  ELSE "none"
    /\ exp' = IF current' = "exp" THEN Append(exp, merged[i]) ELSE exp
    /\ proj' = IF current' = "proj" THEN Append(proj, merged[i]) ELSE proj
    /\ i' = i + 1
    /\ UNCHANGED << lines, pc, section, merged, fixed, merged_titles,
                    final_proj, scanned, was_merged, last_split >>

SplitMarker ==
    /\ pc = "split"
    /\ i <= Len(merged)
    /\ IsHeader(merged[i])
    /\ current' = IF EXPERIENCE_HEADERS(merged[i]) THEN "exp"
                  ELSE IF PROJECTS_HEADERS(merged[i]) THEN "proj"
                  ELSE "none"
    /\ i' = i + 1
    /\ UNCHANGED << lines, pc, section, merged, exp, proj, fixed, merged_titles,
                    final_proj, scanned, was_merged, last_split >>

SplitCollect ==
    /\ pc = "split"
    /\ i <= Len(merged)
    /\ ~IsHeader(merged[i])
    /\ exp' = IF current = "exp" THEN Append(exp, merged[i]) ELSE exp
    /\ proj' = IF current = "proj" THEN Append(proj, merged[i]) ELSE proj
    /\ i' = i + 1
    /\ UNCHANGED << lines, pc, section, merged, current, fixed, merged_titles,
                    final_proj, scanned, was_merged, last_split >>

SplitDone ==
    /\ pc = "split"
    /\ i > Len(merged)
    /\ pc' = "pass1"
    /\ i' = 1
    /\ UNCHANGED << lines, section, merged, current, exp, proj, fixed,
                    merged_titles, final_proj, scanned, was_merged, last_split >>

----------------------------------------------------------------------------
\* Post-pass 1: split any trailing titles from ANY project item (154-161).
Pass1Step ==
    /\ pc = "pass1"
    /\ i <= Len(proj)
    /\ last_split' = Call(proj[i])
    /\ fixed' = fixed \o Pieces(last_split'.result)
    /\ i' = i + 1
    /\ UNCHANGED << lines, pc, section, merged, current, exp, proj,
                    merged_titles, final_proj, scanned, was_merged >>

Pass1Done ==
    /\ pc = "pass1"
    /\ i > Len(proj)
    /\ proj' = fixed
    /\ pc' = "pass2"
    /\ i' = 1
    /\ UNCHANGED << lines, section, merged, current, exp, fixed, merged_titles,
                    final_proj, scanned, was_merged, last_split >>

----------------------------------------------------------------------------
\* Post-pass 2: merge consecutive short titles (163-175).

\* The test with the bound of one title put on the merged title, strictly.
ShortTitlesStrict(cur, next) ==
    /\ looks_like_project_title(cur)
    /\ looks_like_project_title(next)
    /\ word_count(cur) <= ShortTitleWords
    /\ word_count(next) <= ShortTitleWords
    /\ word_count(cur \o next) < ShortTitleWords

\* The test of lines 168-169 on two neighbouring items.
ShortTitles(cur, next) ==
    /\ looks_like_project_title(cur)
    /\ looks_like_project_title(next)
    /\ word_count(cur) <= ShortTitleWords
    /\ word_count(next) <= ShortTitleWords
    /\ word_count(cur \o next) <= MergedTitleWords

Pass2Merge ==
    /\ pc = "pass2"
    /\ i <= Len(proj)
    /\ i + 1 <= Len(proj)
    /\ ShortTitles(proj[i], proj[i + 1])
    /\ merged_titles' = Append(merged_titles, proj[i] \o proj[i + 1])
    /\ was_merged' = Append(was_merged, TRUE)
    /\ i' = i + 2
    /\ UNCHANGED << lines, pc, section, merged, current, exp, proj, fixed,
                    final_proj, scanned, last_split >>

Pass2Keep ==
    /\ pc = "pass2"
    /\ i <= Len(proj)
    /\ ~(i + 1 <= Len(proj) /\ ShortTitles(proj[i], proj[i + 1]))
    /\ merged_titles' = Append(merged_titles, proj[i])
    /\ was_merged' = Append(was_merged, FALSE)
    /\ i' = i + 1
    /\ UNCHANGED << lines, pc, section, merged, current, exp, proj, fixed,
                    final_proj, scanned, last_split >>

Pass2Done ==
    /\ pc = "pass2"
    /\ i > Len(proj)
    /\ proj' = merged_titles
    /\ pc' = "pass3"
    /\ i' = 1
    /\ UNCHANGED << lines, section, merged, current, exp, fixed, merged_titles,
                    final_proj, scanned, was_merged, last_split >>

----------------------------------------------------------------------------
\* Post-pass 3: move a bullet's trailing fragment to the next title (177-201).

\* The fragment put after the title instead of before it.
FragAfterTitle(frag, title) == title \o frag

\* proj[i+1] = (frag + ' ' + proj[i+1]).strip()
WithFrag(frag, title) == frag \o title

\* The tests of lines 183-189 on item i.
Rescuable ==
    /\ i + 1 <= Len(proj)
    /\ is_bullet(proj[i])
    /\ looks_like_project_title(proj[i + 1])
    /\ Frag(proj[i]) # <<>>
    /\ Last(proj[i]).w \notin EndsWithPunctuation

Pass3Rescue ==
    /\ pc = "pass3"
    /\ i <= Len(proj)
    /\ Rescuable
    /\ final_proj' = Append(final_proj, CleanDash(CutFrag(proj[i])))
    /\ proj' = [proj EXCEPT ![i + 1] = WithFrag(Frag(proj[i]), proj[i + 1])]
    /\ i' = i + 1
    /\ UNCHANGED << lines, pc, section, merged, current, exp, fixed,
                    merged_titles, scanned, was_merged, last_split >>

Pass3Keep ==
    /\ pc = "pass3"
    /\ i <= Len(proj)
    /\ ~Rescuable
    /\ final_proj' = Append(final_proj, proj[i])
    /\ i' = i + 1
    /\ UNCHANGED << lines, pc, section, merged, current, exp, proj, fixed,
                    merged_titles, scanned, was_merged, last_split >>

\* proj = final_proj; return exp, proj
Pass3Done ==
    /\ pc = "pass3"
    /\ i > Len(proj)
    /\ proj' = final_proj
    /\ pc' = "done"
    /\ UNCHANGED << lines, i, section, merged, current, exp, fixed,
                    merged_titles, final_proj, scanned, was_merged, last_split >>

----------------------------------------------------------------------------
Next ==
    \/ SkipBlank
    \/ SectionSwitch
    \/ BulletInProjects
    \/ BulletElsewhere
    \/ ProjectsFirstLine
    \/ WrappedBullet
    \/ TitleOrContinuation
    \/ ExperienceLine
    \/ NoSectionLine
    \/ MergeDone
    \/ SplitMarker
    \/ SplitCollect
    \/ SplitDone
    \/ Pass1Step
    \/ Pass1Done
    \/ Pass2Merge
    \/ Pass2Keep
    \/ Pass2Done
    \/ Pass3Rescue
    \/ Pass3Keep
    \/ Pass3Done

Spec == Init /\ [][Next]_vars

\* The pair split_and_merge returns.
Returned == pc = "done"

----------------------------------------------------------------------------
\* Vocabulary of the properties.

Items(list) == { list[a] : a \in 1..Len(list) }

\* The items of the two lists returned.
Output == Items(exp) \cup Items(proj)

TextList(list) == [a \in 1..Len(list) |-> Text(list[a])]

RECURSIVE Flatten(_)
\* The words of a list, item after item.
Flatten(list) == IF list = <<>> THEN <<>> ELSE Head(list) \o Flatten(Tail(list))

\* Line j was read as a header and switched the section.
WasHeader(j) == scanned[j].kind = "header"

\* Line j was read as a bullet.
WasBullet(j) == scanned[j].kind = "bullet"

\* Word x stands before word y in the document.  The two pieces Post-pass 3
\* cuts a word into stand in the order head, tail.
InDocumentOrder(x, y) ==
    \/ x.ln < y.ln
    \/ x.ln = y.ln /\ x.k < y.k
    \/ /\ x.ln = y.ln
       /\ x.k = y.k
       /\ x.w = FragHead(lines[x.ln][x.k])
       /\ y.w = FragTail(lines[y.ln][y.k])

Ordered(list) ==
    \A a \in 1..(Len(Flatten(list)) - 1) :
        InDocumentOrder(Flatten(list)[a], Flatten(list)[a + 1])

\* The split points the Trailing-Title Splitter may choose among: from
\* max(0, tokenCount-10) to tokenCount-2, with a non-empty prefix and a suffix
\* that looks like a project title.
Qualifies(s, start) ==
    /\ start >= 0
    /\ start >= Len(s) - TitleWindow
    /\ start <= Len(s) - 2
    /\ start >= 1
    /\ looks_like_project_title(SubSeq(s, start + 1, Len(s)))

\* The short-title-merge predicate of Repair Pass 2 on items a and a+1.
Mergeable(list, a) ==
    /\ looks_like_project_title(list[a])
    /\ looks_like_project_title(list[a + 1])
    /\ Len(list[a]) <= 4
    /\ Len(list[a + 1]) <= 4
    /\ Len(list[a]) + Len(list[a + 1]) <= 8

AfterPass2 == pc \in { "pass3", "done" }

----------------------------------------------------------------------------
\* C1: split_and_merge is total: on every input it never raises (no branch of
\* the merge pass reaches merged[-1] with merged empty: a section is only
\* active once its header is in merged), it always runs on to its return,
\* and the empty input returns ([], []).
C1_Total ==
    /\ pc # "IndexError"
    /\ (pc = "merge" /\ section # "none" => merged # <<>>)
    /\ (Returned \/ ENABLED Next)
    /\ (Returned /\ lines = <<>> => exp = <<>> /\ proj = <<>>)

\* A run that returned after joining a continuation onto merged[-1] under
\* Experience.
C1_Witness ==
    /\ Returned
    /\ \E j \in 1..Len(lines) :
        /\ scanned[j] = [section |-> "exp", kind |-> "plain"]
        /\ ~looks_like_job_header(Item(lines[j], j))

\* C2 as stated: no line that matched a header pattern in the merge pass is,
\* verbatim, an item of a returned list.
C2_HeaderNotVerbatim ==
    Returned =>
        \A j \in 1..Len(lines) :
            WasHeader(j) => \A item \in Output : Text(item) # lines[j]

\* C2, amended: no word of a returned item was read from a header line (an
\* item may have the text of a header only when it was cut from another line).
C2_HeaderTextNotEmitted ==
    Returned =>
        \A item \in Output : \A a \in 1..Len(item) : ~WasHeader(item[a].ln)

\* A returned item with the text of a header line of the input.
C2_Witness ==
    /\ Returned
    /\ \E j \in 1..Len(lines) :
        /\ WasHeader(j)
        /\ \E item \in Items(proj) : Text(item) = lines[j]

\* C3: every line read under Experience or Projects that is not a header has
\* all its words in the list of that section when the function returns.
C3_EveryLineKept ==
    Returned =>
        \A j \in 1..Len(lines) :
            /\ scanned[j].kind \in { "plain", "bullet" }
            /\ scanned[j].section \in { "exp", "proj" }
            => \A k \in 1..Len(lines[j]) :
                 \E item \in Items(IF scanned[j].section = "exp" THEN exp ELSE proj) :
                     \E a \in 1..Len(item) : item[a].ln = j /\ item[a].k = k

C5_NoEmptyItem == Returned => \A item \in Output : item # <<>>

\* C6: a bullet line starts an entry of merged, and in the lists returned the
\* first word of a bullet line is never inside an item, after other text.
C6_BulletAtomicity ==
    /\ \A item \in Items(merged) : \A a \in 2..Len(item) :
         ~(item[a].k = 1 /\ WasBullet(item[a].ln))
    /\ Returned =>
         \A item \in Output : \A a \in 2..Len(item) :
             ~(item[a].k = 1 /\ WasBullet(item[a].ln))

\* C7: in each returned list the words stand in document order.
C7_OrderPreserved == Returned => Ordered(exp) /\ Ordered(proj)

\* Post-pass 3 has moved the end of a bullet onto the title after it.
C7_Witness ==
    /\ Returned
    /\ \E a \in 1..(Len(proj) - 1) :
        /\ proj[a] # <<>>
        /\ proj[a + 1] # <<>>
        /\ Last(proj[a]).ln = proj[a + 1][1].ln
        /\ Last(proj[a + 1]).ln > proj[a + 1][1].ln

\* C8 as stated: Scenario A and Scenario B return the bullet without its marker.
C8_MarkerRemoved ==
    /\ Returned /\ lines = ScenarioA =>
         TextList(proj) = << <<"Suspicious", "Activity", "Detection">>,
                             <<"Built", "a", "model", "for", "X.">> >>
    /\ Returned /\ lines = ScenarioB =>
         TextList(exp) = << ScenarioB[2], <<"Led", "backend", "rewrite.">> >>

\* C8, amended: Scenario A and Scenario B return the bullet with its marker.
C8_MarkerKept ==
    /\ Returned /\ lines = ScenarioA =>
         /\ TextList(proj) = << <<"Suspicious", "Activity", "Detection">>,
                                <<"-", "Built", "a", "model", "for", "X.">> >>
         /\ exp = <<>>
    /\ Returned /\ lines = ScenarioB =>
         /\ TextList(exp) = << ScenarioB[2], <<"-", "Led", "backend", "rewrite.">> >>
         /\ proj = <<>>

C8_Witness == Returned /\ lines = ScenarioB /\ Len(exp) = 2

\* C9 as stated: Scenario C returns the bullet without its last word and the
\* title with that word before it.
C9_FragmentRescued ==
    Returned /\ lines = ScenarioC =>
        TextList(proj) = << <<"Built", "dashboard", "for", "metrics">>,
                            <<"AnalyticsSuite", "Real-Time", "Monitor">> >>

\* C9, amended: Scenario C returns the bullet marker alone, then the rest of
\* the bullet joined with the line after it.
C9_JoinedThenSplit ==
    Returned /\ lines = ScenarioC =>
        /\ TextList(proj) = << <<"-">>,
                               <<"Built", "dashboard", "for", "metrics",
                                 "AnalyticsSuite", "Real-Time", "Monitor">> >>
        /\ exp = <<>>

C9_Witness == Returned /\ lines = ScenarioC /\ Len(proj) = 2

\* C10 as stated: the split returned has the longest prefix among the split
\* points that qualify; with none the line comes back whole, without a title.
C10_LongestPrefix ==
    LET s == last_split.text
        r == last_split.result
    IN  /\ r.title # <<>> =>
              \A start \in 0..Len(s) : Qualifies(s, start) => start <= Len(r.prefix)
        /\ (\A start \in 0..Len(s) : ~Qualifies(s, start)) =>
              r = [prefix |-> s, title |-> <<>>]

\* C10, amended: the split returned has the shortest prefix (the longest
\* title) among the split points that qualify; with none the line comes back
\* whole, without a title.
C10_ShortestPrefix ==
    LET s == last_split.text
        r == last_split.result
    IN  /\ r.title # <<>> =>
              /\ r.prefix \o r.title = s
              /\ Qualifies(s, Len(r.prefix))
              /\ \A start \in 0..Len(s) : Qualifies(s, start) => Len(r.prefix) <= start
        /\ (\A start \in 0..Len(s) : ~Qualifies(s, start)) =>
              r = [prefix |-> s, title |-> <<>>]

\* The splitter was called on a line with several qualifying split points.
C10_Witness ==
    /\ last_split.result.title # <<>>
    /\ \E a, b \in 0..Len(last_split.text) :
        a < b /\ Qualifies(last_split.text, a) /\ Qualifies(last_split.text, b)

====
